---- MODULE Spec2Model ----
(***************************************************************************)
(* A model of the httprouter request router: the per-method radix tries    *)
(* (addRoute, getValue, findCaseInsensitivePath), the path cleaner and the *)
(* Router's registration and dispatch policy (Handle, Lookup, allowed,     *)
(* ServeHTTP).                                                             *)
(*                                                                         *)
(* Strings are sequences of one-character strings: "/ab" is <<"/","a","b">>.*)
(* router.go is modelled from its source.  The trie and the path cleaner   *)
(* (tree.go, path.go) are modelled from sections 3 and 4 of the            *)
(* specification.                                                          *)
(***************************************************************************)
EXTENDS Integers, Sequences, FiniteSets, TLC

VARIABLES trees,    \* Router.trees: method -> root node (NoTree when absent)
          routes,   \* history: the registrations that succeeded
          last      \* the latest call and what it returned

vars == <<trees, routes, last>>

----------------------------------------------------------------------------
(* Bounds of the model.                                                    *)

MaxRoutes == 2      \* calls of Handle in one behaviour
MaxPathLen == 4     \* length of the paths Lookup is called with
MaxServeLen == 3    \* length of the request paths ServeHTTP is checked on
MaxFixLen == 4      \* length of the paths findCaseInsensitivePath is called with
MaxCleanLen == 6    \* length of the strings CleanPath is called with
MaxTrieRoutes == 4  \* routes registered in one trie when its shape is examined

----------------------------------------------------------------------------
(* Byte strings.                                                           *)

Nil == 0
NoTree == [path |-> "nil"]

Min(a, b) == IF a < b THEN a ELSE b

Prefix(s, k) == SubSeq(s, 1, k)
Suffix(s, k) == SubSeq(s, k + 1, Len(s))

HasPrefix(s, p) == Len(s) >= Len(p) /\ Prefix(s, Len(p)) = p

\* Length of the longest common prefix of two strings.
RECURSIVE lcpFrom(_, _, _)
lcpFrom(a, b, i) ==
    IF i < Min(Len(a), Len(b)) /\ a[i + 1] = b[i + 1]
    THEN lcpFrom(a, b, i + 1) ELSE i

longestCommonPrefix(a, b) == lcpFrom(a, b, 0)

\* Index of the first "/" of s at or after position i, Len(s) + 1 when none.
RECURSIVE slashFrom(_, _)
slashFrom(s, i) ==
    IF i > Len(s) THEN Len(s) + 1
    ELSE IF s[i] = "/" THEN i ELSE slashFrom(s, i + 1)

\* Does the remaining pattern start a wildcard segment?  A named parameter
\* starts at ":"; a catch-all owns the "/" in front of its "*".
startsParam(r) == Len(r) >= 1 /\ r[1] = ":"
startsCatchAll(r) == Len(r) >= 2 /\ r[1] = "/" /\ r[2] = "*"
startsWildcard(r) == startsParam(r) \/ startsCatchAll(r)

\* The wildcard token at the head of r: ":name" or "/*name".
wildcardEnd(r) == IF startsParam(r) THEN slashFrom(r, 2) - 1 ELSE slashFrom(r, 3) - 1
wildcardToken(r) == Prefix(r, wildcardEnd(r))

\* Length of the literal text at the head of r, up to its first wildcard.
RECURSIVE staticLenFrom(_, _)
staticLenFrom(r, i) ==
    IF i >= Len(r) THEN Len(r)
    ELSE IF startsWildcard(Suffix(r, i)) \/ r[i + 1] = "*" THEN i
    ELSE staticLenFrom(r, i + 1)

staticLen(r) == staticLenFrom(r, 0)

\* A pattern is well formed when every wildcard has a name free of ":" and
\* "*", and a catch-all follows a "/" and is the final segment.
RECURSIVE wellFormed(_)
wellFormed(r) ==
    LET s == staticLen(r)
        w == Suffix(r, s)
        e == wildcardEnd(w)
        name == IF startsParam(w) THEN SubSeq(w, 2, e) ELSE SubSeq(w, 3, e)
    IN  IF s = Len(r) THEN TRUE
        ELSE /\ startsWildcard(w)
             /\ Len(name) >= 1
             /\ \A i \in 1..Len(name) : name[i] \notin {":", "*"}
             /\ (startsCatchAll(w) => e = Len(w))
             /\ wellFormed(Suffix(w, e))

----------------------------------------------------------------------------
(* Trie nodes (spec section 3).  children holds the static children in     *)
(* descending priority, indices their leading bytes in the same order; the *)
(* wildcard child, when wildChild is set, sits in the reserved last slot   *)
(* of children and has no entry in indices.                                *)

node(path, nType, handle, priority) ==
    [path |-> path, nType |-> nType, wildChild |-> FALSE, indices |-> <<>>,
     children |-> <<>>, handle |-> handle, priority |-> priority]

\* new(node): the zero node Handle installs as the root of a method.
emptyNode == node(<<>>, "static", Nil, 0)

isEmptyTree(n) == Len(n.path) = 0 /\ Len(n.children) = 0

wildcardChild(n) == n.children[Len(n.children)]

\* Position in children of the static child whose leading byte is c, 0 if none.
childIndex(n, c) ==
    IF \E i \in 1..Len(n.indices) : n.indices[i] = c
    THEN CHOOSE i \in 1..Len(n.indices) : n.indices[i] = c
    ELSE 0

\* The chain of fresh nodes holding the non-empty remaining pattern r, the
\* handler on its last node.
RECURSIVE newChild(_, _)
newChild(r, h) ==
    LET seg == IF startsWildcard(r) THEN wildcardToken(r) ELSE Prefix(r, staticLen(r))
        rest == Suffix(r, Len(seg))
        kind == IF startsParam(r) THEN "param"
                ELSE IF startsCatchAll(r) THEN "catchAll" ELSE "static"
        base == node(seg, kind, Nil, 1)
    IN  IF rest = <<>> THEN [base EXCEPT !.handle = h]
        ELSE IF startsWildcard(rest)
        THEN [base EXCEPT !.wildChild = TRUE, !.children = <<newChild(rest, h)>>]
        ELSE [base EXCEPT !.indices = <<rest[1]>>, !.children = <<newChild(rest, h)>>]

\* A faulty variant of incrementChildPrio: the child stays where it is.
incrementChildPrio_noSwap(n, i) == n

\* Keep the static children sorted by descending priority after the child at
\* position i gained a route: move it in front of lower-priority siblings,
\* and its index byte with it.
RECURSIVE incrementChildPrio(_, _)
incrementChildPrio(n, i) ==
    IF i > 1 /\ n.children[i - 1].priority < n.children[i].priority
    THEN incrementChildPrio(
            [n EXCEPT !.children = [n.children EXCEPT ![i - 1] = n.children[i],
                                                      ![i] = n.children[i - 1]],
                      !.indices = [n.indices EXCEPT ![i - 1] = n.indices[i],
                                                    ![i] = n.indices[i - 1]]],
            i - 1)
    ELSE n

\* Split n after the first i bytes of its segment: the remainder keeps the
\* old children and handler, n shrinks to the common prefix.
splitNode(n, i) ==
    [path |-> Prefix(n.path, i), nType |-> n.nType, wildChild |-> FALSE,
     indices |-> <<n.path[i + 1]>>,
     children |-> <<[n EXCEPT !.path = Suffix(n.path, i), !.nType = "static"]>>,
     handle |-> Nil, priority |-> n.priority]

Failed(n) == [ok |-> FALSE, node |-> n]
Done(n) == [ok |-> TRUE, node |-> [n EXCEPT !.priority = n.priority + 1]]

\* insertAt(n, rest, h): n's own segment is consumed, rest is what remains of
\* the pattern.  walk(n, r, h): r still holds n's segment.
RECURSIVE insertAt(_, _, _), walk(_, _, _)
insertAt(n, rest, h) ==
    IF rest = <<>> THEN
        \* the route ends here: a second handler for the same path is an error
        IF n.handle # Nil THEN Failed(n) ELSE Done([n EXCEPT !.handle = h])
    ELSE IF startsWildcard(rest) THEN
        IF n.wildChild THEN
            \* the position already holds a wildcard: it has to be the same
            \* named parameter (the same catch-all would be a duplicate)
            LET w == wildcardChild(n)
                sub == insertAt(w, Suffix(rest, Len(w.path)), h)
            IN  IF w.nType = "param" /\ w.path = wildcardToken(rest) /\ sub.ok
                THEN Done([n EXCEPT !.children[Len(n.children)] = sub.node])
                ELSE Failed(n)
        ELSE IF startsParam(rest) /\ Len(n.children) > 0 THEN Failed(n)
        ELSE IF startsCatchAll(rest) /\ childIndex(n, "/") # 0 THEN Failed(n)
        ELSE Done([n EXCEPT !.wildChild = TRUE,
                            !.children = Append(n.children, newChild(rest, h))])
    ELSE
        IF n.wildChild /\ (wildcardChild(n).nType = "param" \/ rest[1] = "/")
        THEN Failed(n)      \* literal text overlapping the wildcard
        ELSE LET i == childIndex(n, rest[1])
                 k == Len(n.indices)
             IN  IF i # 0
                 THEN LET sub == walk(n.children[i], rest, h)
                      IN  IF sub.ok
                          THEN Done(incrementChildPrio(
                                      [n EXCEPT !.children[i] = sub.node], i))
                          ELSE Failed(n)
                 ELSE Done([n EXCEPT
                        !.indices = Append(n.indices, rest[1]),
                        !.children = SubSeq(n.children, 1, k)
                                       \o <<newChild(rest, h)>>
                                       \o SubSeq(n.children, k + 1, Len(n.children))])
walk(n, r, h) ==
    LET i == longestCommonPrefix(Prefix(r, staticLen(r)), n.path)
        res == insertAt(IF i < Len(n.path) THEN splitNode(n, i) ELSE n,
                        Suffix(r, i), h)
    IN  IF res.ok THEN res ELSE Failed(n)

\* node.addRoute: [ok, node]; ok = FALSE stands for the panic, and node is
\* then the trie as it was.
addRoute(n, path, h) ==
    IF ~wellFormed(path) THEN Failed(n)
    ELSE IF isEmptyTree(n)
    THEN LET s == staticLen(path)
             root == node(Prefix(path, s), "root", Nil, 1)
         IN  [ok |-> TRUE,
              node |-> IF s = Len(path) THEN [root EXCEPT !.handle = h]
                       ELSE [root EXCEPT !.wildChild = TRUE,
                                         !.children = <<newChild(Suffix(path, s), h)>>]]
    ELSE walk(n, path, h)

----------------------------------------------------------------------------
(* Exact lookup (spec section 4.3).                                        *)

Param(key, value) == [Key |-> key, Value |-> value]

Found(h, ps) == [handle |-> h, ps |-> ps, tsr |-> FALSE]
NotFound(ps, tsr) == [handle |-> Nil, ps |-> ps, tsr |-> tsr]

\* A child of n resolves the literal path "/": a static child "/" carrying a
\* handler, or a catch-all, which matches its leading "/".
hasSlashChild(n) ==
    \/ \E i \in 1..Len(n.indices) :
          n.children[i].path = <<"/">> /\ n.children[i].handle # Nil
    \/ n.wildChild /\ wildcardChild(n).nType = "catchAll"

\* matchAt(n, rest, ps): n's segment is consumed, rest is the path left.
\* matchNode(n, path, ps): path still holds the segment of the static node n.
RECURSIVE matchAt(_, _, _), matchNode(_, _, _)
matchAt(n, rest, ps) ==
    IF rest = <<>> THEN
        IF n.handle # Nil THEN Found(n.handle, ps)
        ELSE NotFound(ps, hasSlashChild(n))
    ELSE
        LET i == childIndex(n, rest[1])
            w == wildcardChild(n)
            end == slashFrom(rest, 1) - 1
            sub == IF i # 0 THEN matchNode(n.children[i], rest, ps)
                   ELSE IF n.wildChild /\ w.nType = "param" /\ end >= 1
                   THEN matchAt(w, Suffix(rest, end),
                                Append(ps, Param(Suffix(w.path, 1), Prefix(rest, end))))
                   ELSE IF n.wildChild /\ w.nType = "catchAll" /\ rest[1] = "/"
                   THEN Found(w.handle, Append(ps, Param(Suffix(w.path, 2), rest)))
                   ELSE NotFound(ps, FALSE)
        IN  \* an extra trailing slash behind a node that carries a handler
            IF sub.handle = Nil /\ rest = <<"/">> /\ n.handle # Nil
            THEN NotFound(sub.ps, TRUE)
            ELSE sub
matchNode(n, path, ps) ==
    IF HasPrefix(path, n.path) THEN matchAt(n, Suffix(path, Len(n.path)), ps)
    \* a missing trailing slash in front of a leaf
    ELSE NotFound(ps, n.path = path \o <<"/">> /\ n.handle # Nil)

\* node.getValue: [handle, ps, tsr]
getValue(n, path) == matchNode(n, path, <<>>)

----------------------------------------------------------------------------
(* Path cleaning (spec section 4.1).                                       *)

\* The path elements left after "" and "." are dropped and ".." has removed
\* the element before it (nothing, at the root); p is read from byte i on and
\* cur is the element being read.
RECURSIVE cleanElements(_, _, _, _)
cleanElements(p, i, stack, cur) ==
    LET pushed == IF cur = <<>> \/ cur = <<".">> THEN stack
                  ELSE IF cur = <<".", ".">>
                  THEN (IF stack = <<>> THEN stack ELSE Prefix(stack, Len(stack) - 1))
                  ELSE Append(stack, cur)
    IN  IF i > Len(p) THEN pushed
        ELSE IF p[i] = "/" THEN cleanElements(p, i + 1, pushed, <<>>)
        ELSE cleanElements(p, i + 1, stack, Append(cur, p[i]))

RECURSIVE joinElements(_)
joinElements(stack) ==
    IF stack = <<>> THEN <<>>
    ELSE IF Len(stack) = 1 THEN stack[1]
    ELSE stack[1] \o <<"/">> \o joinElements(Tail(stack))

\* A faulty variant of CleanPath: the kept trailing slash is written also
\* when nothing but the root is left.
CleanPath_rootTrailing(p) ==
    LET stack == cleanElements(p, 1, <<>>, <<>>)
        n == Len(p)
        trailing == \/ n > 1 /\ p[n] = "/"
                    \/ n >= 1 /\ p[n] = "." /\ (n = 1 \/ p[n - 1] = "/")
    IN  <<"/">> \o joinElements(stack) \o (IF trailing THEN <<"/">> ELSE <<>>)

\* CleanPath: the canonical absolute path; a trailing slash is kept.
CleanPath(p) ==
    LET stack == cleanElements(p, 1, <<>>, <<>>)
        n == Len(p)
        trailing == \/ n > 1 /\ p[n] = "/"
                    \/ n >= 1 /\ p[n] = "." /\ (n = 1 \/ p[n - 1] = "/")
    IN  IF stack = <<>> THEN <<"/">>
        ELSE <<"/">> \o joinElements(stack) \o (IF trailing THEN <<"/">> ELSE <<>>)

----------------------------------------------------------------------------
(* Case-insensitive recovery (spec section 4.4).                           *)

toLower(c) == IF c = "A" THEN "a" ELSE IF c = "B" THEN "b" ELSE c
lower(s) == [i \in 1..Len(s) |-> toLower(s[i])]

CiFound(out) == [path |-> out, found |-> TRUE]
CiMiss == [path |-> <<>>, found |-> FALSE]

\* ciAt(n, rest, fix): n's segment is matched and written out, rest is the
\* input left.  ciChildren tries, in order from position i, the static
\* children whose leading byte equals the next input byte up to case.
RECURSIVE ciAt(_, _, _), ciNode(_, _, _), ciChildren(_, _, _, _)
ciChildren(n, i, rest, fix) ==
    IF i > Len(n.indices) THEN CiMiss
    ELSE LET sub == IF toLower(n.indices[i]) = toLower(rest[1])
                    THEN ciNode(n.children[i], rest, fix) ELSE CiMiss
         IN  IF sub.found THEN sub ELSE ciChildren(n, i + 1, rest, fix)
ciAt(n, rest, fix) ==
    IF rest = <<>> THEN
        IF n.handle # Nil THEN CiFound(<<>>)
        ELSE IF fix /\ hasSlashChild(n) THEN CiFound(<<"/">>)
        ELSE CiMiss
    ELSE
        LET st == ciChildren(n, 1, rest, fix)
            w == wildcardChild(n)
            end == slashFrom(rest, 1) - 1
            viaParam == ciAt(w, Suffix(rest, end), fix)
            sub == IF st.found THEN st
                   ELSE IF n.wildChild /\ w.nType = "param" /\ end >= 1 /\ viaParam.found
                   THEN CiFound(Prefix(rest, end) \o viaParam.path)
                   ELSE IF n.wildChild /\ w.nType = "catchAll" /\ rest[1] = "/"
                   THEN CiFound(rest)
                   ELSE CiMiss
        IN  IF ~sub.found /\ fix /\ rest = <<"/">> /\ n.handle # Nil
            THEN CiFound(<<>>)
            ELSE sub
ciNode(n, path, fix) ==
    IF Len(path) >= Len(n.path) /\ lower(Prefix(path, Len(n.path))) = lower(n.path)
    THEN LET sub == ciAt(n, Suffix(path, Len(n.path)), fix)
         IN  IF sub.found THEN CiFound(n.path \o sub.path) ELSE CiMiss
    ELSE IF fix /\ lower(path \o <<"/">>) = lower(n.path) /\ n.handle # Nil
    THEN CiFound(n.path)
    ELSE CiMiss

\* A faulty variant of findCaseInsensitivePath: the trailing slash is never
\* fixed.
findCaseInsensitivePath_neverFix(n, path, fixTrailingSlash) == ciNode(n, path, FALSE)

\* node.findCaseInsensitivePath: [path, found]
findCaseInsensitivePath(n, path, fixTrailingSlash) == ciNode(n, path, fixTrailingSlash)

----------------------------------------------------------------------------
(* Router (router.go).                                                     *)

Methods == {"GET", "POST", "OPTIONS", "CONNECT"}

\* Faulty variants of Router.Lookup, each the slip a claim has to notice:
\* searching the GET trie whatever the method, losing the parameters, cutting
\* the trailing slash off the path first, recommending a redirect when the
\* method has no trie, and never passing the recommendation on.
Lookup_getTreeOnly(t, method, path) ==
    IF t["GET"] # NoTree THEN getValue(t["GET"], path)
    ELSE [handle |-> Nil, ps |-> <<>>, tsr |-> FALSE]

Lookup_dropParams(t, method, path) ==
    IF t[method] # NoTree
    THEN [getValue(t[method], path) EXCEPT !.ps = <<>>]
    ELSE [handle |-> Nil, ps |-> <<>>, tsr |-> FALSE]

Lookup_trimSlash(t, method, path) ==
    LET p == IF Len(path) > 1 /\ path[Len(path)] = "/"
             THEN SubSeq(path, 1, Len(path) - 1) ELSE path
    IN  IF t[method] # NoTree THEN getValue(t[method], p)
        ELSE [handle |-> Nil, ps |-> <<>>, tsr |-> FALSE]

Lookup_tsrWithoutTree(t, method, path) ==
    IF t[method] # NoTree THEN getValue(t[method], path)
    ELSE [handle |-> Nil, ps |-> <<>>, tsr |-> TRUE]

Lookup_noTsr(t, method, path) ==
    IF t[method] # NoTree
    THEN [getValue(t[method], path) EXCEPT !.tsr = FALSE]
    ELSE [handle |-> Nil, ps |-> <<>>, tsr |-> FALSE]

\* Router.Lookup
Lookup(t, method, path) ==
    IF t[method] # NoTree THEN getValue(t[method], path)
    ELSE [handle |-> Nil, ps |-> <<>>, tsr |-> FALSE]

\* Faulty variants of Router.Handle: a new root for every registration, a
\* second attempt on a new root when addRoute refuses the route, and the
\* method's root installed before the path is checked.
HandleResult_freshRoot(t, method, path, handle) ==
    IF Len(path) = 0 \/ path[1] # "/" THEN [panic |-> TRUE, trees |-> t]
    ELSE LET res == addRoute(emptyNode, path, handle)
         IN  [panic |-> ~res.ok, trees |-> [t EXCEPT ![method] = res.node]]

HandleResult_retry(t, method, path, handle) ==
    IF Len(path) = 0 \/ path[1] # "/" THEN [panic |-> TRUE, trees |-> t]
    ELSE LET root == IF t[method] = NoTree THEN emptyNode ELSE t[method]
             res == addRoute(root, path, handle)
             again == IF res.ok THEN res ELSE addRoute(emptyNode, path, handle)
         IN  [panic |-> ~again.ok, trees |-> [t EXCEPT ![method] = again.node]]

HandleResult_rootFirst(t, method, path, handle) ==
    LET root == IF t[method] = NoTree THEN emptyNode ELSE t[method]
        res == addRoute(root, path, handle)
    IN  IF Len(path) = 0 \/ path[1] # "/"
        THEN [panic |-> TRUE, trees |-> [t EXCEPT ![method] = root]]
        ELSE [panic |-> ~res.ok, trees |-> [t EXCEPT ![method] = res.node]]

\* The effect of Router.Handle on Router.trees: the path check comes first,
\* then the method's root is created if absent, then addRoute runs.
HandleResult(t, method, path, handle) ==
    IF Len(path) = 0 \/ path[1] # "/" THEN [panic |-> TRUE, trees |-> t]
    ELSE LET root == IF t[method] = NoTree THEN emptyNode ELSE t[method]
             res == addRoute(root, path, handle)
         IN  [panic |-> ~res.ok, trees |-> [t EXCEPT ![method] = res.node]]

\* New(): every option enabled.
New == [RedirectTrailingSlash |-> TRUE, RedirectFixedPath |-> TRUE,
        HandleMethodNotAllowed |-> TRUE, HandleOptions |-> TRUE]

StatusMovedPermanently == 301
StatusTemporaryRedirect == 307
StatusMethodNotAllowed == 405
StatusNotFound == 404
StatusOK == 200

\* A faulty variant of Router.allowed: OPTIONS is not skipped.
allowed_listsOptions(t, path, reqMethod) ==
    LET found == IF path = <<"*">>
                 THEN {m \in Methods : t[m] # NoTree}
                 ELSE {m \in Methods :
                          /\ t[m] # NoTree
                          /\ m # reqMethod
                          /\ getValue(t[m], path).handle # Nil}
    IN  IF found = {} THEN [methods |-> {}, tail |-> <<>>]
        ELSE [methods |-> found, tail |-> <<"OPTIONS">>]

\* The Allow header Router.allowed builds: the methods it found, in the order
\* the map iteration happens to yield them, then OPTIONS; empty when it found
\* none.
NoAllow == [methods |-> {}, tail |-> <<>>]
allowed(t, path, reqMethod) ==
    LET found == IF path = <<"*">>
                 THEN {m \in Methods : t[m] # NoTree /\ m # "OPTIONS"}
                 ELSE {m \in Methods :
                          /\ t[m] # NoTree
                          /\ m # reqMethod /\ m # "OPTIONS"
                          /\ getValue(t[m], path).handle # Nil}
    IN  IF found = {} THEN NoAllow
        ELSE [methods |-> found, tail |-> <<"OPTIONS">>]

Served(h, ps) ==
    [kind |-> "handler", code |-> StatusOK, handle |-> h, ps |-> ps,
     location |-> <<>>, allow |-> NoAllow]
Redirected(code, to) ==
    [kind |-> "redirect", code |-> code, handle |-> Nil, ps |-> <<>>,
     location |-> to, allow |-> NoAllow]
Answered(kind, code, allow) ==
    [kind |-> kind, code |-> code, handle |-> Nil, ps |-> <<>>,
     location |-> <<>>, allow |-> allow]

\* The tail of ServeHTTP: the automatic OPTIONS reply, 405, or 404.
serveMiss(t, r, method, path) ==
    LET allow == allowed(t, path, method)
    IN  IF method = "OPTIONS"
        THEN IF r.HandleOptions /\ allow # NoAllow
             THEN Answered("options", StatusOK, allow)
             ELSE Answered("notFound", StatusNotFound, NoAllow)
        ELSE IF r.HandleMethodNotAllowed /\ allow # NoAllow
             THEN Answered("notAllowed", StatusMethodNotAllowed, allow)
             ELSE Answered("notFound", StatusNotFound, NoAllow)

\* A faulty variant of Router.ServeHTTP: the trailing-slash redirect always
\* appends a slash, also to a path that ends in one.
ServeHTTP_appendSlash(t, r, method, path) ==
    LET root == t[method]
        v == getValue(root, path)
        code == IF method = "GET" THEN StatusMovedPermanently
                ELSE StatusTemporaryRedirect
        fixed == findCaseInsensitivePath(root, CleanPath(path), r.RedirectTrailingSlash)
    IN  IF root = NoTree THEN serveMiss(t, r, method, path)
        ELSE IF v.handle # Nil THEN Served(v.handle, v.ps)
        ELSE IF method # "CONNECT" /\ path # <<"/">>
        THEN IF v.tsr /\ r.RedirectTrailingSlash
             THEN Redirected(code, path \o <<"/">>)
             ELSE IF r.RedirectFixedPath /\ fixed.found
             THEN Redirected(code, fixed.path)
             ELSE serveMiss(t, r, method, path)
        ELSE serveMiss(t, r, method, path)

\* A faulty variant of Router.ServeHTTP: every redirect is permanent, whatever
\* the request method.
ServeHTTP_alwaysPermanent(t, r, method, path) ==
    LET root == t[method]
        v == getValue(root, path)
        code == StatusMovedPermanently
        fixed == findCaseInsensitivePath(root, CleanPath(path), r.RedirectTrailingSlash)
    IN  IF root = NoTree THEN serveMiss(t, r, method, path)
        ELSE IF v.handle # Nil THEN Served(v.handle, v.ps)
        ELSE IF method # "CONNECT" /\ path # <<"/">>
        THEN IF v.tsr /\ r.RedirectTrailingSlash
             THEN Redirected(code,
                     IF Len(path) > 1 /\ path[Len(path)] = "/"
                     THEN Prefix(path, Len(path) - 1)
                     ELSE path \o <<"/">>)
             ELSE IF r.RedirectFixedPath /\ fixed.found
             THEN Redirected(code, fixed.path)
             ELSE serveMiss(t, r, method, path)
        ELSE serveMiss(t, r, method, path)

\* Router.ServeHTTP for the router options r, as the response it produces.
ServeHTTP(t, r, method, path) ==
    LET root == t[method]
        v == getValue(root, path)
        code == IF method = "GET" THEN StatusMovedPermanently
                ELSE StatusTemporaryRedirect
        fixed == findCaseInsensitivePath(root, CleanPath(path), r.RedirectTrailingSlash)
    IN  IF root = NoTree THEN serveMiss(t, r, method, path)
        ELSE IF v.handle # Nil THEN Served(v.handle, v.ps)
        ELSE IF method # "CONNECT" /\ path # <<"/">>
        THEN IF v.tsr /\ r.RedirectTrailingSlash
             THEN Redirected(code,
                     IF Len(path) > 1 /\ path[Len(path)] = "/"
                     THEN Prefix(path, Len(path) - 1)
                     ELSE path \o <<"/">>)
             ELSE IF r.RedirectFixedPath /\ fixed.found
             THEN Redirected(code, fixed.path)
             ELSE serveMiss(t, r, method, path)
        ELSE serveMiss(t, r, method, path)

----------------------------------------------------------------------------
(* Inputs.                                                                 *)

\* The route patterns offered to Handle: literal routes that share prefixes,
\* named parameters and catch-alls at the same and at different positions,
\* and patterns Handle or addRoute has to refuse.
Patterns ==
    { <<"/">>, <<"/", "a">>, <<"/", "a", "/">>, <<"/", "a", "b">>,
      <<"/", "b">>, <<"/", "a", "/", "b">>,
      <<"/", ":", "x">>, <<"/", ":", "y">>,
      <<"/", "a", "/", ":", "x">>, <<"/", "a", "/", ":", "y">>,
      <<"/", ":", "x", "/">>, <<"/", ":", "x", "/", "b">>,
      <<"/", "*", "x">>, <<"/", "a", "/", "*", "x">>, <<"/", "a", "/", "*", "y">>,
      <<"/", "*", "x", "/", "a">>, <<"/", ":">>,
      <<"a">>, <<>> }

PathBytes == {"/", "a", "b"}

RECURSIVE StringsUpTo(_, _)
StringsUpTo(S, k) ==
    IF k = 0 THEN {<<>>}
    ELSE LET shorter == StringsUpTo(S, k - 1)
         IN  shorter \cup {Append(s, c) : s \in {t \in shorter : Len(t) = k - 1}, c \in S}

\* The request paths Lookup is called with: the empty path and every path of
\* at most MaxPathLen bytes that begins with "/".
Paths == {p \in StringsUpTo(PathBytes, MaxPathLen) : p = <<>> \/ p[1] = "/"}

\* The methods routes are registered and looked up under.
LookupMethods == {"GET", "POST"}

isStatic(p) == \A i \in 1..Len(p) : p[i] \notin {":", "*"}

\* The patterns, request paths and router options of the dispatch model.
ServePatterns ==
    { <<"/", "a">>, <<"/", "a", "/">>, <<"/", "A">>, <<"/", ":", "x">>,
      <<"/", "a", "/", "*", "x">>, <<"/", ":">> }

ServeMethods == {"GET", "OPTIONS", "CONNECT"}

ServeBytes == {"/", "a", "A", "."}

ServePaths ==
    {p \in StringsUpTo(ServeBytes, MaxServeLen) : p = <<>> \/ p[1] = "/"} \cup {<<"*">>}

AllOptions ==
    [RedirectTrailingSlash : BOOLEAN, RedirectFixedPath : BOOLEAN,
     HandleMethodNotAllowed : BOOLEAN, HandleOptions : BOOLEAN]

\* The requests the ServeHTTP action is run on: the router as New() makes it
\* and the zero Router, with every option off, on paths of every outcome.
SampleOptions ==
    {r \in AllOptions : \A f, g \in DOMAIN r : r[f] = r[g]}

SamplePaths ==
    { <<"/">>, <<"/", "a">>, <<"/", "a", "/">>, <<"/", "A">>,
      <<"/", "/", "a">>, <<"*">> }

----------------------------------------------------------------------------
(* The state machine.                                                      *)

Init ==
    /\ trees = [m \in Methods |-> NoTree]
    /\ routes = {}
    /\ last = [op |-> "New"]

\* router.Handle(method, path, handle), the panic recovered by the caller.
\* Each call registers a fresh handler value.
Handle(method, path) ==
    LET handle == Cardinality(routes) + 1
        res == HandleResult(trees, method, path, handle)
    IN  /\ Cardinality(routes) < MaxRoutes
        /\ trees' = res.trees
        /\ routes' = IF res.panic THEN routes
                     ELSE routes \cup {[method |-> method, path |-> path, handle |-> handle]}
        /\ last' = [op |-> "Handle", method |-> method, path |-> path,
                    handle |-> handle, panic |-> res.panic]

\* router.Lookup(method, path)
LookupCall(method, path) ==
    /\ last' = [op |-> "Lookup", method |-> method, path |-> path,
                result |-> Lookup(trees, method, path)]
    /\ UNCHANGED <<trees, routes>>

Register == \E m \in LookupMethods, p \in Patterns : Handle(m, p)
Query == \E m \in LookupMethods, p \in Paths : LookupCall(m, p)

Next == Register \/ Query

Spec == Init /\ [][Next]_vars

\* router.ServeHTTP(w, req) with req.Method = method, req.URL.Path = path, on
\* a router whose options are r.
ServeCall(r, method, path) ==
    /\ last' = [op |-> "ServeHTTP", options |-> r, method |-> method, path |-> path,
                result |-> ServeHTTP(trees, r, method, path)]
    /\ UNCHANGED <<trees, routes>>

RegisterServe == \E m \in ServeMethods, p \in ServePatterns : Handle(m, p)
Serve == \E r \in SampleOptions, m \in ServeMethods, p \in SamplePaths : ServeCall(r, m, p)

NextServe == RegisterServe \/ Serve

SpecServe == Init /\ [][NextServe]_vars

\* root.findCaseInsensitivePath(path, fixTrailingSlash) on the trie of the
\* method, as ServeHTTP calls it: the method has a root and the path is a
\* cleaned one.
FixPatterns ==
    { <<"/", "a">>, <<"/", "A">>, <<"/", "a", "/">>, <<"/", "A", "b">>,
      <<"/", ":", "x">>, <<"/", "A", "/", ":", "x">>, <<"/", "A", "/", "*", "x">>,
      <<"/", "*", "x", "/", "a">> }

FixBytes == {"/", "a", "A", "b"}

FixPaths ==
    {p \in StringsUpTo(FixBytes, MaxFixLen) : p # <<>> /\ p[1] = "/" /\ CleanPath(p) = p}

FixCall(method, path, fix) ==
    /\ trees[method] # NoTree
    /\ last' = [op |-> "findCaseInsensitivePath", method |-> method, path |-> path,
                fix |-> fix,
                result |-> findCaseInsensitivePath(trees[method], path, fix)]
    /\ UNCHANGED <<trees, routes>>

RegisterFix == \E p \in FixPatterns : Handle("GET", p)
Fix == \E p \in FixPaths, fix \in BOOLEAN : FixCall("GET", p, fix)

NextFix == RegisterFix \/ Fix

SpecFix == Init /\ [][NextFix]_vars

\* CleanPath(p) on arbitrary strings: every string over CleanBytes of at most
\* MaxCleanLen bytes, and the example of the function's documentation.
CleanBytes == {"/", ".", "a"}

CleanInputs ==
    StringsUpTo(CleanBytes, MaxCleanLen)
        \cup { <<"/", "a", "/", ".", ".", "/", "b", "/", "/", "c">> }

CleanCall(p) ==
    /\ last' = [op |-> "CleanPath", path |-> p, result |-> CleanPath(p)]
    /\ UNCHANGED <<trees, routes>>

NextClean == \E p \in CleanInputs : CleanCall(p)

SpecClean == Init /\ [][NextClean]_vars

\* Concurrent readers.  Once registration has completed, each thread runs
\* calls of Router.Lookup and of the case-insensitive search as ServeHTTP
\* makes it, each call in steps that interleave with the other thread's: the
\* call, the read of the method's root from r.trees, the descent from that
\* root, the return.  last holds the tries as registration left them and
\* what each thread is doing.
Threads == {1, 2}

ReadMethods == {"GET", "POST"}

ReadPatterns == { <<"/", "a", "/">>, <<"/", "A">>, <<"/", ":", "x">> }

ReadPaths == { <<"/", "a">>, <<"/", "A", "/">>, <<"/", "b">> }

ReadKinds == {"Lookup", "findCaseInsensitivePath"}

Idle == [pc |-> "idle"]

\* A faulty variant of the read of the method's root: a missing root is
\* created, as Handle creates it.
readRoot_create(t, method) ==
    IF t[method] = NoTree
    THEN [root |-> emptyNode, trees |-> [t EXCEPT ![method] = emptyNode]]
    ELSE [root |-> t[method], trees |-> t]

\* root := r.trees[method]: the root read, and r.trees after the read.
readRoot(t, method) == [root |-> t[method], trees |-> t]

\* What the call returns from the root it read.
descend(c) ==
    IF c.kind = "Lookup"
    THEN IF c.root # NoTree THEN getValue(c.root, c.path)
         ELSE [handle |-> Nil, ps |-> <<>>, tsr |-> FALSE]
    ELSE IF c.root # NoTree
         THEN findCaseInsensitivePath(c.root, CleanPath(c.path), TRUE)
         ELSE CiMiss

StartReading ==
    /\ last.op \in {"New", "Handle"}
    /\ last' = [op |-> "Readers", registered |-> trees,
                calls |-> [t \in Threads |-> Idle]]
    /\ UNCHANGED <<trees, routes>>

Call(t, kind, method, path) ==
    /\ last.op = "Readers" /\ last.calls[t].pc = "idle"
    /\ last' = [last EXCEPT !.calls[t] =
                    [pc |-> "called", kind |-> kind, method |-> method, path |-> path]]
    /\ UNCHANGED <<trees, routes>>

ReadRoot(t) ==
    /\ last.op = "Readers" /\ last.calls[t].pc = "called"
    /\ LET c == last.calls[t]
           rr == readRoot(trees, c.method)
       IN  /\ trees' = rr.trees
           /\ last' = [last EXCEPT !.calls[t] =
                           [pc |-> "root", kind |-> c.kind, method |-> c.method,
                            path |-> c.path, root |-> rr.root]]
    /\ UNCHANGED routes

Descend(t) ==
    /\ last.op = "Readers" /\ last.calls[t].pc = "root"
    /\ LET c == last.calls[t]
       IN  last' = [last EXCEPT !.calls[t] =
                       [pc |-> "done", kind |-> c.kind, method |-> c.method,
                        path |-> c.path, result |-> descend(c)]]
    /\ UNCHANGED <<trees, routes>>

Return(t) ==
    /\ last.op = "Readers" /\ last.calls[t].pc = "done"
    /\ last' = [last EXCEPT !.calls[t] = Idle]
    /\ UNCHANGED <<trees, routes>>

RegisterRead ==
    /\ last.op # "Readers"
    /\ \E m \in ReadMethods, p \in ReadPatterns : Handle(m, p)

Reader(t) ==
    \/ \E k \in ReadKinds, m \in ReadMethods, p \in ReadPaths : Call(t, k, m, p)
    \/ ReadRoot(t)
    \/ Descend(t)
    \/ Return(t)

NextRead == RegisterRead \/ StartReading \/ \E t \in Threads : Reader(t)

SpecRead == Init /\ [][NextRead]_vars

\* Registrations alone, up to MaxTrieRoutes routes in the GET trie: enough
\* for a later subtree to outgrow an earlier sibling.
TriePatterns ==
    { <<"/", "a">>, <<"/", "b">>, <<"/", "b", "a">>, <<"/", "b", "b">>,
      <<"/", "a", "b">>, <<"/", "b", "/", ":", "x">>, <<"/", "b", "/", "*", "x">>,
      <<"/", ":", "x">> }

HandleMany(method, path) ==
    LET handle == Cardinality(routes) + 1
        res == HandleResult(trees, method, path, handle)
    IN  /\ Cardinality(routes) < MaxTrieRoutes
        /\ trees' = res.trees
        /\ routes' = IF res.panic THEN routes
                     ELSE routes \cup {[method |-> method, path |-> path, handle |-> handle]}
        /\ last' = [op |-> "Handle", method |-> method, path |-> path,
                    handle |-> handle, panic |-> res.panic]

NextTrie == \E p \in TriePatterns : HandleMany("GET", p)

SpecTrie == Init /\ [][NextTrie]_vars

----------------------------------------------------------------------------
(* Vocabulary of the claims.                                               *)

hasCatchAll(p) == \E i \in 1..Len(p) : p[i] = "*"
hasParam(p) == \E i \in 1..Len(p) : p[i] = ":"

\* What the pattern pat asks of the path, read off the pattern alone: literal
\* bytes match themselves, ":name" binds a non-empty run of bytes other than
\* "/", "/*name" binds the rest of the path from its "/".
RECURSIVE matchPattern(_, _)
matchPattern(pat, path) ==
    IF pat = <<>> THEN [ok |-> path = <<>>, ps |-> <<>>]
    ELSE IF startsCatchAll(pat)
    THEN [ok |-> Len(path) >= 1 /\ path[1] = "/",
          ps |-> <<Param(Suffix(wildcardToken(pat), 2), path)>>]
    ELSE IF startsParam(pat)
    THEN LET tok == wildcardToken(pat)
             end == slashFrom(path, 1) - 1
             sub == matchPattern(Suffix(pat, Len(tok)), Suffix(path, end))
         IN  [ok |-> end >= 1 /\ sub.ok,
              ps |-> <<Param(Suffix(tok, 1), Prefix(path, end))>> \o sub.ps]
    ELSE IF Len(path) >= 1 /\ path[1] = pat[1]
    THEN matchPattern(Tail(pat), Tail(path))
    ELSE [ok |-> FALSE, ps |-> <<>>]

\* The path with its trailing slash toggled.
toggleSlash(p) ==
    IF Len(p) >= 1 /\ p[Len(p)] = "/" THEN Prefix(p, Len(p) - 1) ELSE p \o <<"/">>

\* p and q agree up to a position where both have a wildcard, and the two
\* wildcards there are not the same.
wildcardConflict(p, q) ==
    \E i \in 0..Min(Len(p), Len(q)) :
        /\ Prefix(p, i) = Prefix(q, i)
        /\ startsWildcard(Suffix(p, i)) /\ startsWildcard(Suffix(q, i))
        /\ wildcardToken(Suffix(p, i)) # wildcardToken(Suffix(q, i))

\* Every registered route still resolves, as a path, to its own handler.
RoutesKept == \A r \in routes : Lookup(trees, r.method, r.path).handle = r.handle

----------------------------------------------------------------------------
(* Claims.                                                                 *)

\* C1: Lookup of a registered pattern without wildcards returns exactly its
\* handler, no parameters and no redirect recommendation, whatever other
\* routes are registered.
C1_StaticLookup ==
    last.op = "Lookup" =>
        \A r \in routes :
            (r.method = last.method /\ r.path = last.path /\ isStatic(r.path))
            => last.result = [handle |-> r.handle, ps |-> <<>>, tsr |-> FALSE]

C1_Witness ==
    /\ last.op = "Lookup"
    /\ \E r, q \in routes :
          /\ r.method = last.method /\ r.path = last.path /\ isStatic(r.path)
          /\ q.method = r.method /\ ~isStatic(q.path)
          /\ Len(r.path) >= 2 /\ HasPrefix(q.path, Prefix(r.path, 2))

C3_CatchAllLookup ==
    last.op = "Lookup" =>
        \A r \in routes :
            (/\ r.method = last.method
             /\ hasCatchAll(r.path)
             /\ matchPattern(r.path, last.path).ok)
            => last.result = [handle |-> r.handle,
                              ps |-> matchPattern(r.path, last.path).ps,
                              tsr |-> FALSE]

C3_Witness ==
    /\ last.op = "Lookup"
    /\ last.path = <<"/", "a", "/", "b">>
    /\ \E r \in routes : r.method = last.method /\ r.path = <<"/", "a", "/", "*", "x">>
    /\ last.result.ps = <<Param(<<"x">>, <<"/", "b">>)>>

\* C4: a redirect recommendation comes without a handler, and only when the
\* path with its trailing slash toggled has a handler under the same method.
C4_TsrSound ==
    (last.op = "Lookup" /\ last.result.tsr)
    => /\ last.result.handle = Nil
       /\ Lookup(trees, last.method, toggleSlash(last.path)).handle # Nil

C4_Witness ==
    /\ last.op = "Lookup" /\ last.result.tsr
    /\ last.path = <<"/", "a", "/">>

\* C5: a path without a handler whose slash-toggled form resolves to a
\* handler gets the redirect recommendation: through a static or a
\* named-parameter route, and through a catch-all route as well (the path
\* /files of the pattern /files/*filepath).
C5_TsrComplete ==
    (/\ last.op = "Lookup"
     /\ last.result.handle = Nil
     /\ Lookup(trees, last.method, toggleSlash(last.path)).handle # Nil)
    => last.result.tsr

C5_Witness ==
    /\ last.op = "Lookup" /\ last.result.handle = Nil /\ last.result.tsr
    /\ last.path = <<"/", "b", "/">>
    /\ \E r \in routes : r.method = last.method /\ r.path = <<"/", ":", "x">>

\* C6: registering a pattern whose wildcard differs from the wildcard another
\* route of the method has at the same position panics, and every registered
\* route keeps its handler.
C6_WildcardConflictFails ==
    (/\ last.op = "Handle"
     /\ \E r \in routes :
          /\ r.method = last.method /\ r.handle # last.handle
          /\ wildcardConflict(r.path, last.path))
    => last.panic /\ RoutesKept

C6_Witness ==
    /\ last.op = "Handle" /\ last.panic
    /\ last.path = <<"/", "a", "/", ":", "y">>
    /\ \E r \in routes : r.method = last.method /\ r.path = <<"/", "a", "/", ":", "x">>

\* C7: registering a pattern a second time under the same method panics, and
\* Lookup of the pattern keeps returning the first handler.
C7_DuplicateFails ==
    /\ RoutesKept
    /\ (/\ last.op = "Handle"
        /\ \E r \in routes :
             r.method = last.method /\ r.path = last.path /\ r.handle # last.handle)
       => last.panic

C7_Witness ==
    /\ last.op = "Handle" /\ last.panic
    /\ \E r \in routes :
          /\ r.method = last.method /\ r.path = last.path
          /\ Lookup(trees, r.method, r.path).handle = r.handle

\* C8: Handle with a path that does not begin with "/" panics and leaves
\* Router.trees as it was: no root is created for the method.
C8_NoLeadingSlash ==
    [][ (/\ last'.op = "Handle"
         /\ (Len(last'.path) = 0 \/ last'.path[1] # "/"))
        => (last'.panic /\ trees' = trees) ]_vars

C8_Witness ==
    /\ last.op = "Handle" /\ last.panic
    /\ last.path = <<"a">>
    /\ trees[last.method] = NoTree

\* The dispatch claims are checked on the response of every ServeHTTP step
\* and, once for each trie configuration (in the state its registration
\* produced), on every request of ServePaths under every combination of
\* options.
Settled ==
    \/ last.op = "New"
    \/ last.op = "Handle" /\ (~last.panic \/ trees[last.method] = emptyNode)

\* The non-OPTIONS methods other than m with a handler for exactly p.
otherMethods(t, m, p) ==
    {m2 \in Methods \ {m, "OPTIONS"} : Lookup(t, m2, p).handle # Nil}

\* C9: with HandleMethodNotAllowed, a non-OPTIONS request that gets neither
\* a handler nor a redirect is answered 405 exactly when another non-OPTIONS
\* method has a handler for the path; Allow lists those methods, then
\* OPTIONS; otherwise the answer is not-found.
C9_pred(t, r, m, p, out) ==
    (r.HandleMethodNotAllowed /\ m # "OPTIONS" /\ out.kind \notin {"handler", "redirect"})
    => IF otherMethods(t, m, p) # {}
       THEN /\ out.kind = "notAllowed"
            /\ out.allow = [methods |-> otherMethods(t, m, p), tail |-> <<"OPTIONS">>]
            /\ m \notin out.allow.methods
       ELSE out.kind = "notFound"

C9_MethodNotAllowed ==
    last.op = "ServeHTTP"
    => C9_pred(trees, last.options, last.method, last.path, last.result)

\* C10 as stated: a reported trailing-slash opportunity always ends in a
\* redirect to the slash-toggled path, and a successful case-insensitive
\* search, with RedirectFixedPath, in a redirect to the corrected path.
C10_pred_stated(t, r, m, p, out) ==
    LET v == Lookup(t, m, p)
        fixed == findCaseInsensitivePath(t[m], CleanPath(p), r.RedirectTrailingSlash)
    IN  (t[m] # NoTree /\ v.handle = Nil)
        => /\ v.tsr => (out.kind = "redirect" /\ out.location = toggleSlash(p))
           /\ (r.RedirectFixedPath /\ fixed.found /\ ~v.tsr)
              => (out.kind = "redirect" /\ out.location = fixed.path)

C10_AsStated ==
    last.op = "ServeHTTP"
    => C10_pred_stated(trees, last.options, last.method, last.path, last.result)

\* C10 (amended): for a method other than CONNECT and a path other than "/",
\* when the method has a trie and the exact lookup finds no handler, the
\* router redirects to the slash-toggled path if the lookup recommends it
\* and RedirectTrailingSlash is enabled, and otherwise to the corrected path
\* if RedirectFixedPath is enabled and the case-insensitive search of the
\* cleaned path succeeds.
C10_pred(t, r, m, p, out) ==
    LET v == Lookup(t, m, p)
        fixed == findCaseInsensitivePath(t[m], CleanPath(p), r.RedirectTrailingSlash)
    IN  (t[m] # NoTree /\ v.handle = Nil /\ m # "CONNECT" /\ p # <<"/">>)
        => /\ (v.tsr /\ r.RedirectTrailingSlash)
              => (out.kind = "redirect" /\ out.location = toggleSlash(p))
           /\ (~(v.tsr /\ r.RedirectTrailingSlash) /\ r.RedirectFixedPath /\ fixed.found)
              => (out.kind = "redirect" /\ out.location = fixed.path)

C10_RedirectPolicy ==
    /\ Settled =>
          \A r \in AllOptions, m \in Methods, p \in ServePaths :
              C10_pred(trees, r, m, p, ServeHTTP(trees, r, m, p))
    /\ last.op = "ServeHTTP"
       => C10_pred(trees, last.options, last.method, last.path, last.result)

C10_Witness ==
    /\ last.op = "ServeHTTP" /\ last.result.kind = "redirect"
    /\ last.path = <<"/", "A">> /\ last.result.location = <<"/", "a">>
    /\ ~Lookup(trees, last.method, last.path).tsr

\* C11: every redirect the router issues carries 301 when the request method
\* is GET and 307 for every other method, and no other status.
C11_pred(m, out) ==
    out.kind = "redirect"
    => out.code = (IF m = "GET" THEN StatusMovedPermanently ELSE StatusTemporaryRedirect)

C11_RedirectStatus ==
    /\ Settled =>
          \A r \in AllOptions, m \in Methods, p \in ServePaths :
              C11_pred(m, ServeHTTP(trees, r, m, p))
    /\ last.op = "ServeHTTP" => C11_pred(last.method, last.result)

C11_Witness ==
    /\ last.op = "ServeHTTP" /\ last.method = "OPTIONS"
    /\ last.result.kind = "redirect" /\ last.result.code = StatusTemporaryRedirect
    /\ last.path = <<"/", "a">> /\ last.result.location = <<"/", "a", "/">>
    /\ \E q \in routes : q.method = "GET" /\ q.path = <<"/", "A">>

\* What the pattern pat makes of the path when letter case is ignored in its
\* literal text: whether it matches, and the path rewritten with the literal
\* text in the pattern's casing and the wildcard values as the path has them.
RECURSIVE ciMatchPattern(_, _)
ciMatchPattern(pat, path) ==
    IF pat = <<>> THEN [ok |-> path = <<>>, out |-> <<>>]
    ELSE IF startsCatchAll(pat)
    THEN [ok |-> Len(path) >= 1 /\ path[1] = "/", out |-> path]
    ELSE IF startsParam(pat)
    THEN LET tok == wildcardToken(pat)
             end == slashFrom(path, 1) - 1
             sub == ciMatchPattern(Suffix(pat, Len(tok)), Suffix(path, end))
         IN  [ok |-> end >= 1 /\ sub.ok, out |-> Prefix(path, end) \o sub.out]
    ELSE IF Len(path) >= 1 /\ toLower(path[1]) = toLower(pat[1])
    THEN LET sub == ciMatchPattern(Tail(pat), Tail(path))
         IN  [ok |-> sub.ok, out |-> <<pat[1]>> \o sub.out]
    ELSE [ok |-> FALSE, out |-> <<>>]

\* The registered spellings of the path under the method.
spellings(m, path) ==
    {ciMatchPattern(r.path, path).out :
        r \in {q \in routes : q.method = m /\ ciMatchPattern(q.path, path).ok}}

hasDotElement(c) ==
    \E i \in 1..Len(c) :
        /\ c[i] = "." /\ (i = 1 \/ c[i - 1] = "/")
        /\ \/ i = Len(c) \/ c[i + 1] = "/"
           \/ /\ i + 1 <= Len(c) /\ c[i + 1] = "."
              /\ (i + 1 = Len(c) \/ c[i + 2] = "/")

\* C13: CleanPath is idempotent; its result begins with "/", has no "//" and
\* no "." or ".." element (".." stops at the root); CleanPath("") = "/" and
\* CleanPath("/a/../b//c") = "/b/c".
C13_CleanPath ==
    last.op = "CleanPath" =>
        LET c == last.result
        IN  /\ CleanPath(c) = c
            /\ Len(c) >= 1 /\ c[1] = "/"
            /\ \A i \in 1..(Len(c) - 1) : ~(c[i] = "/" /\ c[i + 1] = "/")
            /\ ~hasDotElement(c)
            /\ last.path = <<>> => c = <<"/">>
            /\ last.path = <<"/", ".", ".", "/", "a">> => c = <<"/", "a">>
            /\ last.path = <<"/", "a", "/", ".", ".", "/", "b", "/", "/", "c">>
               => c = <<"/", "b", "/", "c">>

C13_Witness ==
    /\ last.op = "CleanPath"
    /\ last.path = <<".", ".", "/", "/", "a", "/">>
    /\ last.result = <<"/", "a", "/">>

\* The methods other than OPTIONS with a registered route, and those with a
\* trie.
methodsWithRoutes == {m \in Methods \ {"OPTIONS"} : \E q \in routes : q.method = m}
methodsWithTrie(t) == {m \in Methods \ {"OPTIONS"} : t[m] # NoTree}

\* C14 as stated: with HandleOptions, an OPTIONS request is served by the
\* OPTIONS handler registered for its path; without one it gets the Allow
\* list of the other methods with a handler for the path, or not-found when
\* there is none; OPTIONS * lists every method with registered routes and
\* invokes no handler.
C14_pred_stated(t, r, p, out) ==
    r.HandleOptions =>
        IF p = <<"*">>
        THEN /\ out.kind # "handler"
             /\ methodsWithRoutes # {}
                => /\ out.kind = "options"
                   /\ out.allow = [methods |-> methodsWithRoutes, tail |-> <<"OPTIONS">>]
        ELSE IF Lookup(t, "OPTIONS", p).handle # Nil
        THEN out.kind = "handler" /\ out.handle = Lookup(t, "OPTIONS", p).handle
        ELSE IF otherMethods(t, "OPTIONS", p) # {}
        THEN /\ out.kind = "options"
             /\ out.allow = [methods |-> otherMethods(t, "OPTIONS", p),
                              tail |-> <<"OPTIONS">>]
        ELSE out.kind = "notFound"

C14_pred(t, r, p, out) ==
    r.HandleOptions =>
        IF p = <<"*">>
        THEN /\ out.kind # "handler"
             /\ out.kind # "redirect"
                => IF methodsWithTrie(t) # {}
                   THEN /\ out.kind = "options"
                        /\ out.allow = [methods |-> methodsWithTrie(t),
                                         tail |-> <<"OPTIONS">>]
                   ELSE out.kind = "notFound"
        ELSE IF Lookup(t, "OPTIONS", p).handle # Nil
        THEN out.kind = "handler" /\ out.handle = Lookup(t, "OPTIONS", p).handle
        ELSE out.kind # "redirect"
             => IF otherMethods(t, "OPTIONS", p) # {}
                THEN /\ out.kind = "options"
                     /\ out.allow = [methods |-> otherMethods(t, "OPTIONS", p),
                                      tail |-> <<"OPTIONS">>]
                ELSE out.kind = "notFound"

alone(t, c) ==
    IF c.kind = "Lookup" THEN Lookup(t, c.method, c.path)
    ELSE IF t[c.method] # NoTree
         THEN findCaseInsensitivePath(t[c.method], CleanPath(c.path), TRUE)
         ELSE CiMiss

RECURSIVE nodesUnder(_, _)
nodesUnder(n, prefix) ==
    LET at == prefix \o n.path
    IN  {[at |-> at, node |-> n]}
        \cup UNION {nodesUnder(n.children[i], at) : i \in 1..Len(n.children)}

nodesOf(t, m) == IF t[m] = NoTree THEN {} ELSE nodesUnder(t[m], <<>>)

\* The registered routes of the method that pass through the node ending at
\* the text at.
routesThrough(rs, m, at) == {r \in rs : r.method = m /\ HasPrefix(r.path, at)}

\* Priorities count routes, children are in non-increasing priority order
\* and indices holds the leading bytes of the static children, in order.
trieOrdered(t, rs) ==
    \A m \in Methods : \A x \in nodesOf(t, m) :
        LET n == x.node
            statics == Len(n.indices)
        IN  /\ n.priority = Cardinality(routesThrough(rs, m, x.at))
            /\ \A i \in 1..(Len(n.children) - 1) :
                  n.children[i].priority >= n.children[i + 1].priority
            /\ statics = Len(n.children) - (IF n.wildChild THEN 1 ELSE 0)
            /\ \A i \in 1..statics :
                  /\ n.children[i].nType = "static"
                  /\ n.indices[i] = n.children[i].path[1]
            /\ n.wildChild => wildcardChild(n).nType \in {"param", "catchAll"}

\* No node's priority is lower after the step than before it.
priorityKept(t, u) ==
    \A m \in Methods : \A x \in nodesOf(t, m) :
        \E y \in nodesOf(u, m) : y.at = x.at /\ y.node.priority >= x.node.priority

\* C16: after every registration each node's priority is the number of
\* registered routes passing through it, no priority has decreased, the
\* children of each node are in non-increasing priority order, and
\* indices[i] is the leading byte of children[i] for every static child.
C16_Priorities ==
    [][ trieOrdered(trees', routes') /\ priorityKept(trees, trees') ]_vars

C16_Witness ==
    /\ trees["GET"] # NoTree
    /\ trees["GET"].indices = <<"b", "a">>
    /\ trees["GET"].children[1].priority = 3
    /\ trees["GET"].children[2].priority = 1
    /\ [method |-> "GET", path |-> <<"/", "a">>, handle |-> 1] \in routes

\* What can be observed of the tries t: the methods that have a trie, the
\* result of every Lookup, and every allowed-methods list, the server-wide
\* one included.
sameObservable(t, u) ==
    /\ {m \in Methods : t[m] # NoTree} = {m \in Methods : u[m] # NoTree}
    /\ \A m \in Methods, p \in Paths : Lookup(t, m, p) = Lookup(u, m, p)
    /\ \A m \in Methods, p \in Paths \cup {<<"*">>} : allowed(t, p, m) = allowed(u, p, m)

\* C17: a registration that fails leaves the observable state of the router
\* as it was: the same methods have a trie, and every Lookup and every
\* allowed-methods list is what it was before the call.
C17_FailureLeavesNoTrace ==
    [][ (last'.op = "Handle" /\ last'.panic) => sameObservable(trees, trees') ]_vars

====
